---- MODULE Spec2Model ----
(***************************************************************************)
(* Model of the Wildberries price bot (main.go): the registry trackingData *)
(* guarded by the RWMutex mu, its mirror in tracking.json, the command     *)
(* handlers run one after another by the update loop of main, and the      *)
(* background goroutine startPriceChecker.                                 *)
(*                                                                         *)
(* A price is the float64 (Product+Logistics)/100.0.  The model keeps the  *)
(* integer number of hundredths n for the float n/100.0: the division by   *)
(* the constant 100.0 is strictly increasing on integers, so < and = on    *)
(* the floats are < and = on the hundredths.                               *)
(*                                                                         *)
(* A string that the code inspects (an article) is a tuple of one-letter   *)
(* strings, so that TrimSpace and Atoi are computed.                       *)
(***************************************************************************)
EXTENDS Integers, Sequences, FiniteSets, TLC

\* ---------------------------------------------------------------- bounds
\* Number of events (commands received by main, ticks of the checker) in a run.
MaxEvents == 3

\* ------------------------------------------------------- input alphabets
\* chatID values (update.Message.Chat.ID)
Chats == {11, 22}
\* Size.Name values of the catalogue
SizeNames == {"M", "L"}
Digits == {"1"}
\* Raw command arguments / message texts: empty, numeric, numeric with a
\* trailing blank, not numeric.
RawArgs == {<<>>, <<"1">>, <<"1", " ">>, <<"a">>}

\* type PriceInfo struct { Product int; Logistics int }: a size that is out
\* of stock comes without a price (both 0), one in stock costs 1 or 2
PriceInfos ==
  {[Product |-> 0, Logistics |-> 0],
   [Product |-> 0, Logistics |-> 1],
   [Product |-> 1, Logistics |-> 1]}

\* The worlds that are explored: two subscribers and a product of one size,
\* or one subscriber and a product of two sizes.  The second world has many
\* more adapter responses, and starts with one event already used.
Worlds ==
  {[chats |-> {11, 22}, sizes |-> {"M"}, used |-> 0],
   [chats |-> {11}, sizes |-> {"M", "L"}, used |-> 1]}

\* type Size struct { Name string; Price PriceInfo }
SizeRecs(sizes) == [Name : sizes, Price : PriceInfos]

\* Product.Sizes of a successful getWBProductInfo: a list of size records
\* with distinct names in the order of the catalogue (M before L), any of
\* them missing, possibly empty.
Responses(sizes) ==
  {<<>>} \cup {<<r>> : r \in SizeRecs(sizes)}
         \cup {<<r[1], r[2]>> :
                 r \in {x \in SizeRecs(sizes) \X SizeRecs(sizes) :
                          x[1].Name = "M" /\ x[2].Name = "L"}}

\* ------------------------------------------------------------- helpers
\* func calculatePrice(price PriceInfo) float64, in hundredths
calculatePrice(price) == price.Product + price.Logistics

\* strings.TrimSpace on a tuple of letters
RECURSIVE TrimLeft(_)
TrimLeft(s) ==
  IF s # <<>> /\ Head(s) = " " THEN TrimLeft(Tail(s)) ELSE s

RECURSIVE TrimRight(_)
TrimRight(s) ==
  IF s # <<>> /\ s[Len(s)] = " " THEN TrimRight(SubSeq(s, 1, Len(s) - 1)) ELSE s

TrimSpace(s) == TrimRight(TrimLeft(s))

\* strconv.Atoi(article) returns no error (the alphabet holds no sign)
AtoiOk(s) == s # <<>> /\ \A i \in 1..Len(s) : s[i] \in Digits

\* Go map operations on functions
EmptyMap == <<>>
MapPut(m, k, v) == [x \in (DOMAIN m) \cup {k} |-> IF x = k THEN v ELSE m[x]]
MapDelete(m, k) == [x \in (DOMAIN m) \ {k} |-> m[x]]

\* _, ok := trackingData[chatID][article]
HasArticle(td, c, a) == c \in DOMAIN td /\ a \in DOMAIN td[c]

\* Mutant of StoreSizes: a size that comes without a price is skipped.
RECURSIVE StoreSizesSkipUnpriced(_, _)
StoreSizesSkipUnpriced(m, sizes) ==
  IF sizes = <<>> THEN m
  ELSE StoreSizesSkipUnpriced(
         IF calculatePrice(Head(sizes).Price) = 0 THEN m
         ELSE MapPut(m, Head(sizes).Name, calculatePrice(Head(sizes).Price)),
         Tail(sizes))

\* the loop of handleTrackingRequest over product.Sizes:
\*   trackingData[chatID][article][size.Name] = calculatePrice(size.Price)
RECURSIVE StoreSizes(_, _)
StoreSizes(m, sizes) ==
  IF sizes = <<>> THEN m
  ELSE StoreSizes(MapPut(m, Head(sizes).Name, calculatePrice(Head(sizes).Price)),
                  Tail(sizes))

\* the critical section of handleTrackingRequest
TrackUpsert(td, c, a, sizes) ==
  LET td1 == IF c \in DOMAIN td THEN td ELSE MapPut(td, c, EmptyMap)
      old == IF a \in DOMAIN td1[c] THEN td1[c][a] ELSE EmptyMap
  IN  MapPut(td1, c, MapPut(td1[c], a, StoreSizes(old, sizes)))

\* the critical section of handleUntrackRequest: delete(userTracking, article)
UntrackDelete(td, c, a) ==
  IF HasArticle(td, c, a) THEN MapPut(td, c, MapDelete(td[c], a)) ELSE td

\* Mutant of SetPrice: the price is written for every chat that tracks the
\* article, as if the registry were keyed by article alone.
SetPriceEveryChat(td, c, a, name, price) ==
  [x \in DOMAIN td |->
     IF a \in DOMAIN td[x]
     THEN MapPut(td[x], a, MapPut(td[x][a], name, price))
     ELSE td[x]]

\* trackingData[chatID][article][name] = price in startPriceChecker
SetPrice(td, c, a, name, price) ==
  MapPut(td, c, MapPut(td[c], a, MapPut(td[c][a], name, price)))

\* messages handed to bot.Send
Msg(to, kind, body) == [to |-> to, kind |-> kind, body |-> body]
NoMsg == Msg(0, "none", <<>>)

\* an entry of visitLog: a bot.Send, a write to trackingData or a
\* saveDataToFile of the loop
LogEntry(ev, size, kind, val) == [ev |-> ev, size |-> size, kind |-> kind, val |-> val]

\* contents of tracking.json
NoFile == [state |-> "absent"]
FileOf(td) == [state |-> "json", data |-> td]

\* --------------------------------------------------------------- state
VARIABLES
  trackingData,    \* map[chatId]map[article]map[size]lastPrice
  file,            \* tracking.json
  muWriter,        \* goroutine holding mu.Lock, or "none"
  muReaders,       \* goroutines holding mu.RLock
  hPc,             \* position of the update loop of main / its handler
  hChat,           \* chatID of the running handler
  hArticle,        \* article of the running handler (trimmed)
  hProduct,        \* product.Sizes fetched by handleTrackingRequest
  hTodo,           \* articles handleListRequest still has to fetch
  foundAndDeleted, \* local of handleUntrackRequest
  ckPc,            \* position of startPriceChecker
  currentTracking, \* its snapshot of trackingData
  todo,            \* (chatID, article) pairs of the snapshot not visited yet
  ckChat,          \* chatID of the visit
  ckArticle,       \* article of the visit
  newProductInfo,  \* newProductInfo.Sizes of the visit
  idx,             \* index of newSize in newProductInfo.Sizes
  visitLog,        \* what the loop did for the pair it visits (history)
  sent,            \* the message the last step handed to bot.Send
  wrote,           \* the last step called ioutil.WriteFile
  crashed,         \* a goroutine panicked: the process is gone
  lastDrop,        \* the last price-drop notification of each (chat, article,
                   \* size) since the pair was last tracked or untracked (history)
  world,           \* the subscribers and the sizes of the catalogue (fixed)
  events           \* commands and ticks so far

hVars == <<hPc, hChat, hArticle, hProduct, hTodo, foundAndDeleted>>
ckVars == <<ckPc, currentTracking, todo, ckChat, ckArticle, newProductInfo, idx,
            visitLog>>
muVars == <<muWriter, muReaders>>
vars == <<trackingData, file, muVars, hVars, ckVars, sent, wrote, crashed,
          lastDrop, world, events>>

\* main: loadDataFromFile on a missing file, both goroutines waiting
Init ==
  /\ trackingData = EmptyMap
  /\ file = NoFile
  /\ muWriter = "none"
  /\ muReaders = {}
  /\ hPc = "idle"
  /\ hChat = 0
  /\ hArticle = <<>>
  /\ hProduct = <<>>
  /\ hTodo = {}
  /\ foundAndDeleted = FALSE
  /\ ckPc = "idle"
  /\ currentTracking = EmptyMap
  /\ todo = {}
  /\ ckChat = 0
  /\ ckArticle = <<>>
  /\ newProductInfo = <<>>
  /\ idx = 0
  /\ visitLog = <<>>
  /\ sent = NoMsg
  /\ wrote = FALSE
  /\ crashed = FALSE
  /\ lastDrop = {}
  /\ world \in Worlds
  /\ events = world.used

\* ------------------------------------------------------------ the lock
\* mu.Lock() returns
CanLock == muWriter = "none" /\ muReaders = {}
\* mu.RLock() returns
CanRLock == muWriter = "none"

\* the handler returns to the update loop
HandlerReturns ==
  /\ hPc' = "idle"
  /\ hChat' = 0
  /\ hArticle' = <<>>
  /\ hProduct' = <<>>
  /\ hTodo' = {}
  /\ foundAndDeleted' = FALSE

\* ioutil.WriteFile(dataFileName, dataBytes, 0644): the file holds the
\* marshalled registry, or the call fails and the file is as before
WriteFile(ok) ==
  /\ wrote' = TRUE
  /\ IF ok THEN file' = FileOf(trackingData)
           ELSE file' = file

\* ------------------------------------------ main: handleTrackingRequest
\* Mutant of CmdTrack: the return after the "invalid article" message is
\* missing, the handler goes on to the adapter call.
CmdTrackUnchecked(c, raw) ==
  /\ ~crashed
  /\ events < MaxEvents
  /\ events' = events + 1
  /\ hPc = "idle"
  /\ LET article == TrimSpace(raw) IN
       /\ sent' = IF ~AtoiOk(article) THEN Msg(c, "invalidArticle", <<>>)
                                      ELSE Msg(c, "checking", article)
       /\ hPc' = "tFetch"
       /\ hChat' = c
       /\ hArticle' = article
       /\ UNCHANGED <<hProduct, hTodo, foundAndDeleted>>
  /\ wrote' = FALSE
  /\ UNCHANGED <<trackingData, file, muVars, ckVars, crashed>>
  /\ UNCHANGED <<lastDrop, world>>

\* lines 266-272: trim, Atoi, "checking" message
CmdTrack(c, raw) ==
  /\ ~crashed
  /\ events < MaxEvents
  /\ events' = events + 1
  /\ hPc = "idle"
  /\ LET article == TrimSpace(raw) IN
       IF ~AtoiOk(article)
       THEN /\ sent' = Msg(c, "invalidArticle", <<>>)
            /\ UNCHANGED hVars
       ELSE /\ sent' = Msg(c, "checking", article)
            /\ hPc' = "tFetch"
            /\ hChat' = c
            /\ hArticle' = article
            /\ UNCHANGED <<hProduct, hTodo, foundAndDeleted>>
  /\ wrote' = FALSE
  /\ UNCHANGED <<trackingData, file, muVars, ckVars, crashed>>
  /\ UNCHANGED <<lastDrop, world>>

\* lines 274-278: getWBProductInfo returned an error
TrackFetchErr ==
  /\ ~crashed
  /\ hPc = "tFetch"
  /\ sent' = Msg(hChat, "fetchFailed", hArticle)
  /\ HandlerReturns
  /\ wrote' = FALSE
  /\ UNCHANGED <<trackingData, file, muVars, ckVars, crashed>>
  /\ UNCHANGED <<lastDrop, world, events>>

\* line 274: getWBProductInfo returned a product
TrackFetchOk(resp) ==
  /\ ~crashed
  /\ hPc = "tFetch"
  /\ hProduct' = resp
  /\ hPc' = "tLock"
  /\ sent' = NoMsg
  /\ wrote' = FALSE
  /\ UNCHANGED <<hChat, hArticle, hTodo, foundAndDeleted>>
  /\ UNCHANGED <<trackingData, file, muVars, ckVars, crashed>>
  /\ UNCHANGED <<lastDrop, world, events>>

\* lines 281-297: mu.Lock() returns, the critical section, mu.Unlock()
TrackStore ==
  /\ ~crashed
  /\ hPc = "tLock"
  /\ CanLock
  /\ trackingData' = TrackUpsert(trackingData, hChat, hArticle, hProduct)
  /\ hPc' = "tAck"
  /\ sent' = NoMsg
  /\ wrote' = FALSE
  /\ UNCHANGED <<hChat, hArticle, hProduct, hTodo, foundAndDeleted>>
  /\ UNCHANGED <<file, muVars, ckVars, crashed>>
  /\ lastDrop' = {d \in lastDrop : <<d[1], d[2]>> # <<hChat, hArticle>>}
  /\ UNCHANGED <<world, events>>

\* lines 300-304: the acknowledgement with the current prices
TrackAck ==
  /\ ~crashed
  /\ hPc = "tAck"
  /\ sent' = Msg(hChat, "tracking", <<hArticle, StoreSizes(EmptyMap, hProduct)>>)
  /\ hProduct' = <<>>
  /\ hPc' = "tSave"
  /\ wrote' = FALSE
  /\ UNCHANGED <<hChat, hArticle, hTodo, foundAndDeleted>>
  /\ UNCHANGED <<trackingData, file, muVars, ckVars, crashed>>
  /\ UNCHANGED <<lastDrop, world, events>>

\* line 307 / line 454 -> line 59: saveDataToFile takes mu.RLock()
HandlerSaveLock ==
  /\ ~crashed
  /\ hPc \in {"tSave", "uSave"}
  /\ CanRLock
  /\ muReaders' = muReaders \cup {"main"}
  /\ hPc' = IF hPc = "tSave" THEN "tWrite" ELSE "uWrite"
  /\ sent' = NoMsg
  /\ wrote' = FALSE
  /\ UNCHANGED <<hChat, hArticle, hProduct, hTodo, foundAndDeleted>>
  /\ UNCHANGED <<trackingData, file, muWriter, ckVars, crashed>>
  /\ UNCHANGED <<lastDrop, world, events>>

\* lines 63-76: marshal, WriteFile, deferred RUnlock; back in the handler
\* (lines 307-310: a failed save after track is followed by a warning,
\*  lines 454-456: after untrack it is only logged)
HandlerSaveWrite(ok) ==
  /\ ~crashed
  /\ hPc \in {"tWrite", "uWrite"}
  /\ WriteFile(ok)
  /\ muReaders' = muReaders \ {"main"}
  /\ IF hPc = "tWrite" /\ ~ok
     THEN /\ hPc' = "tWarn"
          /\ UNCHANGED <<hChat, hArticle, hProduct, hTodo, foundAndDeleted>>
     ELSE HandlerReturns
  /\ sent' = NoMsg
  /\ UNCHANGED <<trackingData, muWriter, ckVars, crashed>>
  /\ UNCHANGED <<lastDrop, world, events>>

\* line 309: the warning after a failed save
TrackWarn ==
  /\ ~crashed
  /\ hPc = "tWarn"
  /\ sent' = Msg(hChat, "saveWarning", hArticle)
  /\ HandlerReturns
  /\ wrote' = FALSE
  /\ UNCHANGED <<trackingData, file, muVars, ckVars, crashed>>
  /\ UNCHANGED <<lastDrop, world, events>>

\* ------------------------------------------- main: handleUntrackRequest
\* lines 433-437: trim, usage message on an empty argument
CmdUntrack(c, raw) ==
  /\ ~crashed
  /\ events < MaxEvents
  /\ events' = events + 1
  /\ hPc = "idle"
  /\ LET article == TrimSpace(raw) IN
       IF article = <<>>
       THEN /\ sent' = Msg(c, "untrackUsage", <<>>)
            /\ UNCHANGED hVars
       ELSE /\ sent' = NoMsg
            /\ hPc' = "uLock"
            /\ hChat' = c
            /\ hArticle' = article
            /\ UNCHANGED <<hProduct, hTodo, foundAndDeleted>>
  /\ wrote' = FALSE
  /\ UNCHANGED <<trackingData, file, muVars, ckVars, crashed>>
  /\ UNCHANGED <<lastDrop, world>>

\* lines 441-448: mu.Lock() returns, the critical section, mu.Unlock()
UntrackStore ==
  /\ ~crashed
  /\ hPc = "uLock"
  /\ CanLock
  /\ foundAndDeleted' = HasArticle(trackingData, hChat, hArticle)
  /\ trackingData' = UntrackDelete(trackingData, hChat, hArticle)
  /\ hPc' = "uReply"
  /\ sent' = NoMsg
  /\ wrote' = FALSE
  /\ UNCHANGED <<hChat, hArticle, hProduct, hTodo>>
  /\ UNCHANGED <<file, muVars, ckVars, crashed>>
  /\ lastDrop' = {d \in lastDrop : <<d[1], d[2]>> # <<hChat, hArticle>>}
  /\ UNCHANGED <<world, events>>

\* Mutant of UntrackReply: saveDataToFile is called after either reply.
UntrackReplyAlwaysSaves ==
  /\ ~crashed
  /\ hPc = "uReply"
  /\ sent' = Msg(hChat, IF foundAndDeleted THEN "untracked" ELSE "notTracked",
                 hArticle)
  /\ hPc' = "uSave"
  /\ UNCHANGED <<hChat, hArticle, hProduct, hTodo, foundAndDeleted>>
  /\ wrote' = FALSE
  /\ UNCHANGED <<trackingData, file, muVars, ckVars, crashed>>
  /\ UNCHANGED <<lastDrop, world, events>>

\* lines 451-459: the reply; a save follows only after a removal
UntrackReply ==
  /\ ~crashed
  /\ hPc = "uReply"
  /\ IF foundAndDeleted
     THEN /\ sent' = Msg(hChat, "untracked", hArticle)
          /\ hPc' = "uSave"
          /\ UNCHANGED <<hChat, hArticle, hProduct, hTodo, foundAndDeleted>>
     ELSE /\ sent' = Msg(hChat, "notTracked", hArticle)
          /\ HandlerReturns
  /\ wrote' = FALSE
  /\ UNCHANGED <<trackingData, file, muVars, ckVars, crashed>>
  /\ UNCHANGED <<lastDrop, world, events>>

\* ---------------------------------------------- main: handleListRequest
\* line 248 -> line 395: the handler starts and asks for mu.RLock()
CmdList(c) ==
  /\ ~crashed
  /\ events < MaxEvents
  /\ events' = events + 1
  /\ hPc = "idle"
  /\ hPc' = "lLock"
  /\ hChat' = c
  /\ sent' = NoMsg
  /\ wrote' = FALSE
  /\ UNCHANGED <<hArticle, hProduct, hTodo, foundAndDeleted>>
  /\ UNCHANGED <<trackingData, file, muVars, ckVars, crashed>>
  /\ UNCHANGED <<lastDrop, world>>

\* lines 395-405: mu.RLock() returns; nothing tracked -> message, deferred
\* RUnlock and return; else the loop over the articles starts, lock held
ListRead ==
  /\ ~crashed
  /\ hPc = "lLock"
  /\ CanRLock
  /\ IF hChat \notin DOMAIN trackingData \/ DOMAIN trackingData[hChat] = {}
     THEN /\ sent' = Msg(hChat, "listEmpty", <<>>)
          /\ HandlerReturns
          /\ UNCHANGED muReaders
     ELSE /\ sent' = NoMsg
          /\ muReaders' = muReaders \cup {"main"}
          /\ hTodo' = DOMAIN trackingData[hChat]
          /\ hPc' = "lFetch"
          /\ UNCHANGED <<hChat, hArticle, hProduct, foundAndDeleted>>
  /\ wrote' = FALSE
  /\ UNCHANGED <<trackingData, file, muWriter, ckVars, crashed>>
  /\ UNCHANGED <<lastDrop, world, events>>

\* lines 408-423: getWBProductInfo(article) for one article of the user,
\* called with the read lock held; its outcome only changes the text
ListFetch(a) ==
  /\ ~crashed
  /\ hPc = "lFetch"
  /\ a \in hTodo
  /\ hTodo' = hTodo \ {a}
  /\ hPc' = IF hTodo' = {} THEN "lSend" ELSE "lFetch"
  /\ sent' = NoMsg
  /\ wrote' = FALSE
  /\ UNCHANGED <<hChat, hArticle, hProduct, foundAndDeleted>>
  /\ UNCHANGED <<trackingData, file, muVars, ckVars, crashed>>
  /\ UNCHANGED <<lastDrop, world, events>>

\* lines 425-427: the list is sent, the deferred RUnlock runs
ListSend ==
  /\ ~crashed
  /\ hPc = "lSend"
  /\ sent' = Msg(hChat, "list", trackingData[hChat])
  /\ muReaders' = muReaders \ {"main"}
  /\ HandlerReturns
  /\ wrote' = FALSE
  /\ UNCHANGED <<trackingData, file, muWriter, ckVars, crashed>>
  /\ UNCHANGED <<lastDrop, world, events>>

\* ---------------------------------------------------- startPriceChecker
\* oldPrices of the pair being visited: the snapshot's inner map
oldPrices == currentTracking[ckChat][ckArticle]
\* newSize := newProductInfo.Sizes[idx]
newSize == newProductInfo[idx]

\* the (chatID, article) pairs the nested range loops will visit
PairsOf(td) == {p \in Chats \X {TrimSpace(r) : r \in RawArgs} : HasArticle(td, p[1], p[2])}

\* the loop is between two ticks: its locals are gone
CheckerWaits ==
  /\ ckPc' = "idle"
  /\ currentTracking' = EmptyMap
  /\ todo' = {}
  /\ ckChat' = 0
  /\ ckArticle' = <<>>
  /\ newProductInfo' = <<>>
  /\ idx' = 0
  /\ visitLog' = <<>>

\* lines 320-335: the ticker fires, mu.RLock() returns, deep copy of
\* trackingData, mu.RUnlock()
CheckerSnapshot ==
  /\ ~crashed
  /\ events < MaxEvents
  /\ events' = events + 1
  /\ ckPc = "idle"
  /\ CanRLock
  /\ currentTracking' = trackingData
  /\ todo' = PairsOf(trackingData)
  /\ ckPc' = "pick"
  /\ sent' = NoMsg
  /\ wrote' = FALSE
  /\ UNCHANGED <<ckChat, ckArticle, newProductInfo, idx, visitLog>>
  /\ UNCHANGED <<trackingData, file, muVars, hVars, crashed>>
  /\ UNCHANGED <<lastDrop, world>>

\* lines 337-340: the next pair of the range loops (map order is not fixed;
\* the articles of one chat are visited together), getWBProductInfo is called
CheckerPick(c, a) ==
  /\ ~crashed
  /\ ckPc = "pick"
  /\ <<c, a>> \in todo
  /\ (\E p \in todo : p[1] = ckChat) => c = ckChat
  /\ todo' = todo \ {<<c, a>>}
  /\ ckChat' = c
  /\ ckArticle' = a
  /\ newProductInfo' = <<>>
  /\ idx' = 0
  /\ visitLog' = <<>>
  /\ ckPc' = "fetch"
  /\ sent' = NoMsg
  /\ wrote' = FALSE
  /\ UNCHANGED currentTracking
  /\ UNCHANGED <<trackingData, file, muVars, hVars, crashed>>
  /\ UNCHANGED <<lastDrop, world, events>>

\* lines 337, 319-320: every pair was visited, back to <-ticker.C
CheckerTickEnd ==
  /\ ~crashed
  /\ ckPc = "pick"
  /\ todo = {}
  /\ CheckerWaits
  /\ sent' = NoMsg
  /\ wrote' = FALSE
  /\ UNCHANGED <<trackingData, file, muVars, hVars, crashed>>
  /\ UNCHANGED <<lastDrop, world, events>>

\* Mutant of CheckerFetchErr: the error ends the tick (a break out of the
\* range loops instead of the continue).
CheckerFetchErrEndsTick ==
  /\ ~crashed
  /\ ckPc = "fetch"
  /\ CheckerWaits
  /\ sent' = NoMsg
  /\ wrote' = FALSE
  /\ UNCHANGED <<trackingData, file, muVars, hVars, crashed>>
  /\ UNCHANGED <<lastDrop, world, events>>

\* lines 340-344: the adapter failed: log and continue with the next pair
\* (the continue skips the time.Sleep of line 386)
CheckerFetchErr ==
  /\ ~crashed
  /\ ckPc = "fetch"
  /\ ckPc' = "pick"
  /\ sent' = NoMsg
  /\ wrote' = FALSE
  /\ UNCHANGED <<currentTracking, todo, ckChat, ckArticle, newProductInfo, idx,
                 visitLog>>
  /\ UNCHANGED <<trackingData, file, muVars, hVars, crashed>>
  /\ UNCHANGED <<lastDrop, world, events>>

\* line 340: the adapter returned the product
CheckerFetchOk(resp) ==
  /\ ~crashed
  /\ ckPc = "fetch"
  /\ newProductInfo' = resp
  /\ idx' = 1
  /\ ckPc' = "size"
  /\ sent' = NoMsg
  /\ wrote' = FALSE
  /\ UNCHANGED <<currentTracking, todo, ckChat, ckArticle, visitLog>>
  /\ UNCHANGED <<trackingData, file, muVars, hVars, crashed>>
  /\ UNCHANGED <<lastDrop, world, events>>

\* lines 346-353: a size that the snapshot does not hold; mu.Lock() is next
CheckerNewSize ==
  /\ ~crashed
  /\ ckPc = "size"
  /\ idx <= Len(newProductInfo)
  /\ newSize.Name \notin DOMAIN oldPrices
  /\ ckPc' = "addLock"
  /\ sent' = NoMsg
  /\ wrote' = FALSE
  /\ UNCHANGED <<currentTracking, todo, ckChat, ckArticle, newProductInfo, idx,
                 visitLog>>
  /\ UNCHANGED <<trackingData, file, muVars, hVars, crashed>>
  /\ UNCHANGED <<lastDrop, world, events>>

\* Mutant of IsDrop: an equal price counts as a drop.
IsDropOrEqual(newPrice, oldPrice) == newPrice <= oldPrice

\* line 359: newPrice < oldPrice
IsDrop(newPrice, oldPrice) == newPrice < oldPrice

\* lines 359-372: the price fell: the notification is sent
CheckerPriceDrop ==
  /\ ~crashed
  /\ ckPc = "size"
  /\ idx <= Len(newProductInfo)
  /\ newSize.Name \in DOMAIN oldPrices
  /\ IsDrop(calculatePrice(newSize.Price), oldPrices[newSize.Name])
  /\ sent' = Msg(ckChat, "priceDrop",
                 <<ckArticle, newSize.Name, oldPrices[newSize.Name],
                   calculatePrice(newSize.Price)>>)
  /\ visitLog' = Append(visitLog,
                        LogEntry("send", newSize.Name, "priceDrop",
                                 calculatePrice(newSize.Price)))
  /\ ckPc' = "updLock"
  /\ wrote' = FALSE
  /\ UNCHANGED <<currentTracking, todo, ckChat, ckArticle, newProductInfo, idx>>
  /\ UNCHANGED <<trackingData, file, muVars, hVars, crashed>>
  /\ lastDrop' = {d \in lastDrop : <<d[1], d[2], d[3]>> # <<ckChat, ckArticle, newSize.Name>>}
                 \cup {<<ckChat, ckArticle, newSize.Name, calculatePrice(newSize.Price)>>}
  /\ UNCHANGED <<world, events>>

\* lines 346-348, 359, 383-384: a known size whose price did not fall
CheckerNoDrop ==
  /\ ~crashed
  /\ ckPc = "size"
  /\ idx <= Len(newProductInfo)
  /\ newSize.Name \in DOMAIN oldPrices
  /\ ~IsDrop(calculatePrice(newSize.Price), oldPrices[newSize.Name])
  /\ idx' = idx + 1
  /\ sent' = NoMsg
  /\ wrote' = FALSE
  /\ UNCHANGED <<ckPc, currentTracking, todo, ckChat, ckArticle, newProductInfo,
                 visitLog>>
  /\ UNCHANGED <<trackingData, file, muVars, hVars, crashed>>
  /\ UNCHANGED <<lastDrop, world, events>>

\* Mutant of CheckerStore: the write-back creates the maps it does not find,
\* so a pair that was untracked after the snapshot comes back.
CheckerStoreRecreates ==
  /\ ~crashed
  /\ ckPc \in {"addLock", "updLock"}
  /\ CanLock
  /\ trackingData' =
       SetPrice(TrackUpsert(trackingData, ckChat, ckArticle, <<>>),
                ckChat, ckArticle, newSize.Name, calculatePrice(newSize.Price))
  /\ visitLog' = Append(visitLog,
                        LogEntry("store", newSize.Name, "",
                                 calculatePrice(newSize.Price)))
  /\ IF ckPc = "addLock"
     THEN ckPc' = "size" /\ idx' = idx + 1
     ELSE ckPc' = "save" /\ idx' = idx
  /\ sent' = NoMsg
  /\ wrote' = FALSE
  /\ UNCHANGED <<currentTracking, todo, ckChat, ckArticle, newProductInfo>>
  /\ UNCHANGED <<file, muVars, hVars, crashed>>
  /\ UNCHANGED <<lastDrop, world, events>>

\* lines 353-356 / lines 375-377: mu.Lock() returns and the live registry
\* still holds the pair: trackingData[chatID][article][newSize.Name] = newPrice,
\* mu.Unlock(); a new size goes on with the next size, a drop goes on to
\* saveDataToFile
CheckerStore ==
  /\ ~crashed
  /\ ckPc \in {"addLock", "updLock"}
  /\ CanLock
  /\ HasArticle(trackingData, ckChat, ckArticle)
  /\ trackingData' = SetPrice(trackingData, ckChat, ckArticle, newSize.Name,
                              calculatePrice(newSize.Price))
  /\ visitLog' = Append(visitLog,
                        LogEntry("store", newSize.Name, "",
                                 calculatePrice(newSize.Price)))
  /\ IF ckPc = "addLock"
     THEN ckPc' = "size" /\ idx' = idx + 1
     ELSE ckPc' = "save" /\ idx' = idx
  /\ sent' = NoMsg
  /\ wrote' = FALSE
  /\ UNCHANGED <<currentTracking, todo, ckChat, ckArticle, newProductInfo>>
  /\ UNCHANGED <<file, muVars, hVars, crashed>>
  /\ UNCHANGED <<lastDrop, world, events>>

\* line 354 / line 376 after the pair was untracked: trackingData[chatID][article]
\* is a nil map, the assignment panics with mu locked and the process ends
CheckerPanic ==
  /\ ~crashed
  /\ ckPc \in {"addLock", "updLock"}
  /\ CanLock
  /\ ~HasArticle(trackingData, ckChat, ckArticle)
  /\ muWriter' = "checker"
  /\ crashed' = TRUE
  /\ sent' = NoMsg
  /\ wrote' = FALSE
  /\ UNCHANGED <<trackingData, file, muReaders, hVars, ckVars>>
  /\ UNCHANGED <<lastDrop, world, events>>

\* line 380 -> line 59: saveDataToFile takes mu.RLock()
CheckerSaveLock ==
  /\ ~crashed
  /\ ckPc = "save"
  /\ CanRLock
  /\ muReaders' = muReaders \cup {"checker"}
  /\ ckPc' = "write"
  /\ sent' = NoMsg
  /\ wrote' = FALSE
  /\ UNCHANGED <<currentTracking, todo, ckChat, ckArticle, newProductInfo, idx,
                 visitLog>>
  /\ UNCHANGED <<trackingData, file, muWriter, hVars, crashed>>
  /\ UNCHANGED <<lastDrop, world, events>>

\* lines 63-76, 380-383: marshal, WriteFile, RUnlock; an error is only logged
CheckerSaveWrite(ok) ==
  /\ ~crashed
  /\ ckPc = "write"
  /\ WriteFile(ok)
  /\ muReaders' = muReaders \ {"checker"}
  /\ visitLog' = Append(visitLog,
                        LogEntry("save", "", IF ok THEN "ok" ELSE "failed", 0))
  /\ ckPc' = "size"
  /\ idx' = idx + 1
  /\ sent' = NoMsg
  /\ UNCHANGED <<currentTracking, todo, ckChat, ckArticle, newProductInfo>>
  /\ UNCHANGED <<trackingData, muWriter, hVars, crashed>>
  /\ UNCHANGED <<lastDrop, world, events>>

\* line 346: the range over newProductInfo.Sizes is exhausted
CheckerSizesDone ==
  /\ ~crashed
  /\ ckPc = "size"
  /\ idx > Len(newProductInfo)
  /\ ckPc' = "sleep"
  /\ sent' = NoMsg
  /\ wrote' = FALSE
  /\ UNCHANGED <<currentTracking, todo, ckChat, ckArticle, newProductInfo, idx,
                 visitLog>>
  /\ UNCHANGED <<trackingData, file, muVars, hVars, crashed>>
  /\ UNCHANGED <<lastDrop, world, events>>

\* line 386: time.Sleep(2 * time.Second) is over
CheckerSleep ==
  /\ ~crashed
  /\ ckPc = "sleep"
  /\ ckPc' = "pick"
  /\ sent' = NoMsg
  /\ wrote' = FALSE
  /\ UNCHANGED <<currentTracking, todo, ckChat, ckArticle, newProductInfo, idx,
                 visitLog>>
  /\ UNCHANGED <<trackingData, file, muVars, hVars, crashed>>
  /\ UNCHANGED <<lastDrop, world, events>>

\* -------------------------------------------------------- specification
Next ==
  \/ \E c \in world.chats, raw \in RawArgs : CmdTrack(c, raw)
  \/ TrackFetchErr
  \/ \E resp \in Responses(world.sizes) : TrackFetchOk(resp)
  \/ TrackStore
  \/ TrackAck
  \/ HandlerSaveLock
  \/ \E ok \in BOOLEAN : HandlerSaveWrite(ok)
  \/ TrackWarn
  \/ \E c \in world.chats, raw \in RawArgs : CmdUntrack(c, raw)
  \/ UntrackStore
  \/ UntrackReply
  \/ \E c \in world.chats : CmdList(c)
  \/ ListRead
  \/ \E a \in hTodo : ListFetch(a)
  \/ ListSend
  \/ CheckerSnapshot
  \/ \E p \in todo : CheckerPick(p[1], p[2])
  \/ CheckerTickEnd
  \/ CheckerFetchErr
  \/ \E resp \in Responses(world.sizes) : CheckerFetchOk(resp)
  \/ CheckerNewSize
  \/ CheckerPriceDrop
  \/ CheckerNoDrop
  \/ CheckerStore
  \/ CheckerPanic
  \/ CheckerSaveLock
  \/ \E ok \in BOOLEAN : CheckerSaveWrite(ok)
  \/ CheckerSizesDone
  \/ CheckerSleep

Spec == Init /\ [][Next]_vars

\* The program on a disk that takes every write: ioutil.WriteFile never
\* fails, so the warning of line 309 is never sent.
NextWritesOk ==
  \/ \E c \in world.chats, raw \in RawArgs : CmdTrack(c, raw)
  \/ TrackFetchErr
  \/ \E resp \in Responses(world.sizes) : TrackFetchOk(resp)
  \/ TrackStore
  \/ TrackAck
  \/ HandlerSaveLock
  \/ HandlerSaveWrite(TRUE)
  \/ \E c \in world.chats, raw \in RawArgs : CmdUntrack(c, raw)
  \/ UntrackStore
  \/ UntrackReply
  \/ \E c \in world.chats : CmdList(c)
  \/ ListRead
  \/ \E a \in hTodo : ListFetch(a)
  \/ ListSend
  \/ CheckerSnapshot
  \/ \E p \in todo : CheckerPick(p[1], p[2])
  \/ CheckerTickEnd
  \/ CheckerFetchErr
  \/ \E resp \in Responses(world.sizes) : CheckerFetchOk(resp)
  \/ CheckerNewSize
  \/ CheckerPriceDrop
  \/ CheckerNoDrop
  \/ CheckerStore
  \/ CheckerPanic
  \/ CheckerSaveLock
  \/ CheckerSaveWrite(TRUE)
  \/ CheckerSizesDone
  \/ CheckerSleep

SpecWritesOk == Init /\ [][NextWritesOk]_vars

\* ---------------------------------------------------------------- claims
\* the sizes and prices of the response the loop is working on
FetchedNames == {newProductInfo[i].Name : i \in 1..Len(newProductInfo)}
FetchedPrice(i) == newProductInfo[i].Price.Product + newProductInfo[i].Price.Logistics
\* the loop has gone through every size of the product it visits
VisitOver == ckPc = "sleep"
\* entries of the visit's log
Sends(name, kind) ==
  {k \in 1..Len(visitLog) : /\ visitLog[k].ev = "send"
                            /\ visitLog[k].size = name
                            /\ visitLog[k].kind = kind}
SendsAbout(name) ==
  {k \in 1..Len(visitLog) : visitLog[k].ev = "send" /\ visitLog[k].size = name}
Stores(name, val) ==
  {k \in 1..Len(visitLog) : /\ visitLog[k].ev = "store"
                            /\ visitLog[k].size = name
                            /\ visitLog[k].val = val}
StoredThenSaved(name, val) ==
  \E k \in Stores(name, val) :
    \E l \in (k + 1)..Len(visitLog) : visitLog[l].ev = "save"

\* C1: when the visit of a pair ends (all sizes processed, or the process
\* died in it), every fetched size whose snapshotted price is P > 0 and whose
\* fetched price is Q with 0 < Q < P got exactly one price-drop notification,
\* the value Q was stored for it and saveDataToFile was called afterwards.
C1_PriceDropNotifiedStoredSaved ==
  (VisitOver \/ crashed) =>
    \A i \in 1..Len(newProductInfo) :
      LET name == newProductInfo[i].Name
          Q == FetchedPrice(i)
      IN  (name \in DOMAIN oldPrices /\ 0 < Q /\ Q < oldPrices[name]) =>
            /\ Cardinality(Sends(name, "priceDrop")) = 1
            /\ StoredThenSaved(name, Q)

\* C2: when the visit of a pair ends, every fetched size whose snapshotted
\* value is 0 and whose fetched price is Q > 0 got a "restocked" notification
\* and the value Q was stored for it.
C2_RestockNotifiedAndStored ==
  VisitOver =>
    \A i \in 1..Len(newProductInfo) :
      LET name == newProductInfo[i].Name
          Q == FetchedPrice(i)
      IN  (name \in DOMAIN oldPrices /\ oldPrices[name] = 0 /\ Q > 0) =>
            /\ Sends(name, "restocked") # {}
            /\ Stores(name, Q) # {}

\* C3: when the visit of a pair ends, every size of the snapshot with price
\* P > 0 that the fetch lacks or returns without a price got a "stockout"
\* notification, no price-drop notification, and the value 0 was stored.
C3_StockoutNotifiedAndStored ==
  VisitOver =>
    \A name \in DOMAIN oldPrices :
      (/\ oldPrices[name] > 0
       /\ \/ name \notin FetchedNames
          \/ \E i \in 1..Len(newProductInfo) :
               newProductInfo[i].Name = name /\ FetchedPrice(i) = 0) =>
        /\ Sends(name, "stockout") # {}
        /\ Sends(name, "priceDrop") = {}
        /\ Stores(name, 0) # {}

\* C4: when the visit of a pair ends, every fetched size with snapshotted
\* price P > 0 and fetched price Q > P got no notification, but Q was stored
\* for it and saveDataToFile was called afterwards.
C4_PriceRiseStoredSilently ==
  VisitOver =>
    \A i \in 1..Len(newProductInfo) :
      LET name == newProductInfo[i].Name
          Q == FetchedPrice(i)
      IN  (name \in DOMAIN oldPrices /\ 0 < oldPrices[name] /\ oldPrices[name] < Q) =>
            /\ SendsAbout(name) = {}
            /\ StoredThenSaved(name, Q)

\* every fetched size is in the snapshot with the price that was fetched
AllFetchedUnchanged ==
  \A i \in 1..Len(newProductInfo) :
    /\ newProductInfo[i].Name \in DOMAIN oldPrices
    /\ FetchedPrice(i) = oldPrices[newProductInfo[i].Name]

\* C5: a visit in which every fetched size has the price of the snapshot
\* sends nothing, writes nothing to the registry and does not save: no step
\* of the loop in it changes trackingData or the file or sends a message,
\* and its log is empty at the end; and the loop never sends a price-drop
\* notification that repeats the last one for the same size (same new price)
\* unless the pair was tracked or untracked in between.
C5_UnchangedPricesAreSilent ==
  /\ []((VisitOver /\ AllFetchedUnchanged) => visitLog = <<>>)
  /\ [][(ckPc = "size" /\ AllFetchedUnchanged /\ ckVars' # ckVars) =>
          (/\ trackingData' = trackingData
           /\ file' = file
           /\ sent' = NoMsg
           /\ ~wrote')]_vars
  /\ [][(sent'.kind = "priceDrop") =>
          <<sent'.to, sent'.body[1], sent'.body[2], sent'.body[4]>> \notin lastDrop]_vars

\* C5 witness: a tick that fetched, for a size whose drop to Q was notified
\* before, the same price Q again, and finished the product.
C5_Witness ==
  /\ VisitOver
  /\ newProductInfo # <<>>
  /\ AllFetchedUnchanged
  /\ \E i \in 1..Len(newProductInfo) :
       <<ckChat, ckArticle, newProductInfo[i].Name, FetchedPrice(i)>> \in lastDrop

\* the names of the sizes of a response
NamesOf(sizes) == {sizes[i].Name : i \in 1..Len(sizes)}

\* C6: the critical section of a track that fetched the sizes Z leaves an
\* entry for (chat, article) that holds, for every size of Z, the price
\* Product+Logistics of the response (0 for a size without a price),
\* whatever the registry held before.
C6_TrackStoresEveryFetchedSize ==
  [][TrackStore =>
       /\ HasArticle(trackingData', hChat, hArticle)
       /\ \A i \in 1..Len(hProduct) :
            /\ hProduct[i].Name \in DOMAIN trackingData'[hChat][hArticle]
            /\ trackingData'[hChat][hArticle][hProduct[i].Name]
                 = hProduct[i].Price.Product + hProduct[i].Price.Logistics]_vars

\* C6 witness: a track has just stored a response that holds a size without
\* a price, over an entry that held another size before.
C6_Witness ==
  /\ hPc = "tAck"
  /\ DOMAIN trackingData[hChat][hArticle] # NamesOf(hProduct)
  /\ \E i \in 1..Len(hProduct) :
       /\ hProduct[i].Price.Product + hProduct[i].Price.Logistics = 0
       /\ trackingData[hChat][hArticle][hProduct[i].Name] = 0

\* C7: the critical section of a track leaves an entry whose sizes are
\* exactly the sizes of the response it fetched.
C7_RetrackReplacesEntry ==
  [][TrackStore =>
       DOMAIN trackingData'[hChat][hArticle] = NamesOf(hProduct)]_vars

\* C8: a (chat, article) pair that is not in the registry enters it only by
\* the critical section of a track of that pair; so a pair that untrack has
\* removed stays absent until the next successful track, whatever the loop
\* does with a snapshot that still holds it.
C8_OnlyTrackAddsEntry ==
  [][\A c \in Chats, r \in RawArgs :
       (~HasArticle(trackingData, c, TrimSpace(r))
          /\ HasArticle(trackingData', c, TrimSpace(r))) =>
         (TrackStore /\ hChat = c /\ hArticle = TrimSpace(r))]_vars

\* C8 witness: the loop tried to write back a value for a pair of its
\* snapshot that had been untracked, and the pair is still absent.
C8_Witness ==
  /\ crashed
  /\ HasArticle(currentTracking, ckChat, ckArticle)
  /\ ~HasArticle(trackingData, ckChat, ckArticle)

\* C9: an untrack of a pair that the registry does not hold changes neither
\* the registry nor the file, writes nothing, answers "not tracked" and
\* returns; an untrack without an argument answers with the usage text and
\* changes nothing either.
C9_UntrackAbsentIsNoOp ==
  [][/\ (UntrackStore /\ ~HasArticle(trackingData, hChat, hArticle)) =>
          (/\ trackingData' = trackingData
           /\ file' = file
           /\ ~wrote'
           /\ ~foundAndDeleted')
     /\ (UntrackReply /\ ~foundAndDeleted) =>
          (/\ sent' = Msg(hChat, "notTracked", hArticle)
           /\ hPc' = "idle"
           /\ trackingData' = trackingData
           /\ file' = file
           /\ ~wrote')
     /\ \A c \in Chats, r \in RawArgs :
          CmdUntrack(c, r) =>
            (/\ trackingData' = trackingData
             /\ file' = file
             /\ ~wrote'
             /\ (TrimSpace(r) = <<>> =>
                   (sent' = Msg(c, "untrackUsage", <<>>) /\ hPc' = "idle")))]_vars

\* C9 witness: "not tracked" was answered while the registry holds an entry.
C9_Witness ==
  /\ sent.kind = "notTracked"
  /\ hPc = "idle"
  /\ \E c \in Chats : c \in DOMAIN trackingData /\ DOMAIN trackingData[c] # {}

\* a non-empty string of decimal digits
AllDigits(s) ==
  /\ Len(s) > 0
  /\ \A i \in 1..Len(s) : s[i] \in {"0", "1", "2", "3", "4", "5", "6", "7", "8", "9"}

\* C10: a track whose argument is not numeric answers with the "invalid
\* article" text, returns at once and changes neither registry nor file, and
\* the handler is never in or past the adapter call with a non-numeric
\* article; a track whose adapter call fails answers with the failure,
\* returns and changes neither registry nor file.
C10_FailedTrackChangesNothing ==
  /\ [](hPc \in {"tFetch", "tLock", "tAck", "tSave", "tWrite", "tWarn"}
          => AllDigits(hArticle))
  /\ [][/\ \A c \in Chats, r \in RawArgs :
             (CmdTrack(c, r) /\ ~AllDigits(TrimSpace(r))) =>
               (/\ sent' = Msg(c, "invalidArticle", <<>>)
                /\ hPc' = "idle"
                /\ trackingData' = trackingData
                /\ file' = file
                /\ ~wrote')
        /\ TrackFetchErr =>
             (/\ sent' = Msg(hChat, "fetchFailed", hArticle)
              /\ hPc' = "idle"
              /\ trackingData' = trackingData
              /\ file' = file
              /\ ~wrote')]_vars

\* C10 witness: the adapter failed for a track while the registry holds an
\* entry, and the failure was reported.
C10_Witness ==
  /\ sent.kind = "fetchFailed"
  /\ hPc = "idle"
  /\ \E c \in Chats : c \in DOMAIN trackingData /\ DOMAIN trackingData[c] # {}

\* C11: when the WriteFile of the saveDataToFile that a track or an untrack
\* calls fails (the file still differs from the registry afterwards), the
\* registry keeps the change and the handler goes on to send the warning to
\* the subscriber before it returns.
C11_FailedSaveKeepsChangeAndWarns ==
  [][/\ (/\ hPc \in {"tWrite", "uWrite"}
         /\ hPc' # hPc
         /\ file' # FileOf(trackingData)) =>
          (/\ trackingData' = trackingData
           /\ hPc' = "tWarn"
           /\ hChat' = hChat)
     /\ (hPc = "tWarn" /\ hPc' # hPc) =>
          (/\ sent' = Msg(hChat, "saveWarning", hArticle)
           /\ trackingData' = trackingData)]_vars

\* what the registry holds for a chat
EntryOf(td, c) ==
  [tracked |-> c \in DOMAIN td,
   articles |-> IF c \in DOMAIN td THEN td[c] ELSE EmptyMap]

\* C12: the registry changes only in the critical section of a track, of an
\* untrack, or of a write-back of the loop, and each of them leaves the
\* entries of every chat other than its own (hChat, or ckChat for the loop)
\* as they were, also when both chats track the same article.
C12_EntriesIsolatedPerChat ==
  [][/\ (trackingData' # trackingData) =>
          (TrackStore \/ UntrackStore \/ CheckerStore)
     /\ (TrackStore \/ UntrackStore) =>
          \A b \in Chats \ {hChat} :
            EntryOf(trackingData', b) = EntryOf(trackingData, b)
     /\ CheckerStore =>
          \A b \in Chats \ {ckChat} :
            EntryOf(trackingData', b) = EntryOf(trackingData, b)]_vars

\* C12 witness: two chats track the same article, the loop has just written
\* back a new price for one of them and the other's entry holds another price.
C12_Witness ==
  /\ ckPc = "save"
  /\ \E b \in Chats \ {ckChat} :
       /\ HasArticle(trackingData, b, ckArticle)
       /\ HasArticle(trackingData, ckChat, ckArticle)
       /\ trackingData[b][ckArticle] # trackingData[ckChat][ckArticle]

\* tracking.json agrees with the registry on the pair (c, a)
FileHoldsPair(c, a) ==
  /\ file.state = "json"
  /\ HasArticle(file.data, c, a) <=> HasArticle(trackingData, c, a)
  /\ HasArticle(trackingData, c, a) => file.data[c][a] = trackingData[c][a]

\* the handler is past the WriteFile of its saveDataToFile
HandlerSaveAttempted == hPc = "tWarn"

\* C13: when the acknowledgement of a track ("tracking") or of an untrack
\* that removed an entry ("untracked") is sent, either the handler has
\* already attempted its write of the registry, or the file holds the
\* mutation.
C13_SaveBeforeAck ==
  [][(sent'.kind \in {"tracking", "untracked"}) =>
       (HandlerSaveAttempted \/ FileHoldsPair(hChat, hArticle))]_vars

\* C14: when the loop is about to write back a value for a pair of its
\* snapshot that an untrack has removed meanwhile, its next step completes
\* the write-back: the pair is in the registry again with the fetched price
\* of the size, and the process has not failed.
C14_StaleWriteBackRecreatesEntry ==
  [][(/\ ckPc \in {"addLock", "updLock"}
      /\ ~HasArticle(trackingData, ckChat, ckArticle)
      /\ (ckPc' # ckPc \/ crashed' # crashed)) =>
       (/\ ~crashed'
        /\ HasArticle(trackingData', ckChat, ckArticle)
        /\ newSize.Name \in DOMAIN trackingData'[ckChat][ckArticle]
        /\ trackingData'[ckChat][ckArticle][newSize.Name]
             = calculatePrice(newSize.Price))]_vars

\* C15: the step of the loop after a failed adapter call (the step that leaves
\* the call without a product to go through) changes neither the
\* registry nor the file, sends nothing, leaves the pairs still to visit as
\* they are and takes the loop to the next pair; and the loop leaves a tick
\* only when no pair of the snapshot is left to visit.
C15_FetchErrorSkipsPairOnly ==
  [][/\ (ckPc = "fetch" /\ ckPc' \notin {"fetch", "size"}) =>
          (/\ trackingData' = trackingData
           /\ file' = file
           /\ sent' = NoMsg
           /\ ~wrote'
           /\ ~crashed'
           /\ visitLog' = <<>>
           /\ todo' = todo
           /\ ckPc' = "pick")
     /\ (ckPc # "idle" /\ ckPc' = "idle") => todo = {}]_vars

\* C15 witness: the adapter call for a pair failed and the loop is about to
\* take the next pair of the snapshot.
C15_Witness ==
  /\ ckPc = "pick"
  /\ ckChat # 0
  /\ idx = 0
  /\ todo # {}

\* no handler is running and the loop waits for the next tick
Quiescent == hPc = "idle" /\ ckPc = "idle" /\ ~crashed

\* tracking.json holds the registry (no file stands for the empty registry)
FileMatchesRegistry ==
  IF file.state = "absent" THEN trackingData = EmptyMap
                           ELSE file.data = trackingData

\* C16: when every file write succeeds, the file holds the registry in every
\* state in which no handler is running and the loop is between two ticks.
C16_FileMirrorsRegistryWhenQuiescent ==
  Quiescent => FileMatchesRegistry

\* C17: a goroutine that is in a call of getWBProductInfo (the update loop of
\* main in a track or a list, the loop of startPriceChecker in a tick) holds
\* mu in no mode.
C17_NoLockAcrossAdapterCall ==
  /\ hPc \in {"tFetch", "lFetch"} =>
       ("main" \notin muReaders /\ muWriter # "main")
  /\ ckPc = "fetch" =>
       ("checker" \notin muReaders /\ muWriter # "checker")

\* the goroutines that are inside saveDataToFile, between the return of its
\* mu.RLock() and the end of its WriteFile
Savers ==
  (IF hPc \in {"tWrite", "uWrite"} THEN {"main"} ELSE {})
    \cup (IF ckPc = "write" THEN {"checker"} ELSE {})

\* C18: at most one goroutine at a time is inside saveDataToFile between
\* taking the lock and finishing the write of tracking.json.
C18_SingleFileWriter == Cardinality(Savers) <= 1

\* C19: inside a tick the loop comes to the call of getWBProductInfo for a
\* further pair of the snapshot only from the start of the tick or from the
\* time.Sleep that follows the previous product: never straight from the
\* previous adapter call.
C19_DelayAfterEveryAdapterCall ==
  [][(ckPc' = "pick" /\ todo' # {} /\ ckPc' # ckPc) =>
       ckPc \in {"idle", "sleep"}]_vars

\* a goroutine is at a mu.Lock() or mu.RLock() that has not returned yet
HandlerWantsMu == hPc \in {"tLock", "uLock", "lLock", "tSave", "uSave"}
CheckerWantsMu == ckPc \in {"addLock", "updLock", "save"}
\* mu is held in some mode
MuHeld == muWriter # "none" \/ muReaders # {}

\* C20: the lock never deadlocks: a goroutine that calls saveDataToFile holds
\* mu in no mode; while mu is held the program can take a step (the holder
\* goes on towards its release); and while a goroutine waits for mu the
\* program can take a step (the lock is granted, or its holder goes on).
C20_LockNeverDeadlocks ==
  /\ hPc \in {"tSave", "uSave"} =>
       ("main" \notin muReaders /\ muWriter # "main")
  /\ ckPc = "save" =>
       ("checker" \notin muReaders /\ muWriter # "checker")
  /\ MuHeld => ENABLED Next
  /\ (HandlerWantsMu \/ CheckerWantsMu) => ENABLED Next

====
